---------------------------- MODULE Spec2Model ----------------------------
(***************************************************************************)
(* SmartCare API (api/main.py, api/services/demand.py,                     *)
(* api/services/syndromes.py): the alert aggregator, the demand batch,     *)
(* the weather-override and inventory stores, the volume prediction path,  *)
(* the status level, the daily snapshot, the live weather fetch and two    *)
(* upserts served at once, as state machines.                              *)
(*                                                                         *)
(* Numbers that are floats in the source (forecasts, residual offsets,     *)
(* model outputs) are fixed-point integers here; the unit is stated at     *)
(* each use.                                                               *)
(***************************************************************************)
EXTENDS Integers, Sequences, FiniteSets, TLC

VARIABLES
    pc,            \* which operation has run ("idle" before any)
    demand_preds,  \* compute_critical_alerts: argument demand_preds
    inv,           \* compute_critical_alerts: argument inv
    alerts,        \* compute_critical_alerts: returned list
    csv,           \* data/raw/data10yrs.csv as _load_hist reads it
    vol_feat_list, \* vol_feat_list: None, or the "features" list
    vol_intervals, \* vol_intervals: residual_p10 / residual_p90, each optional
    vol_X,         \* predict_volume: X_all, the aligned feature matrix
    vol_x,         \* predict_volume: the row handed to vol_model.predict
    vol_yhat,      \* predict_volume: what vol_model.predict returned, if called
    vol_res,       \* predict_volume: the response, or the HTTP error
    demand_art,    \* ml/artifacts/demand/<item_code>/: files and their contents
    demand_req,    \* predict_demand: req.items
    demand_res,    \* predict_demand: the response, or the HTTP error
    syn_art,       \* ml/artifacts/syndromes/<syn_code>/: files and contents
    syn_req,       \* predict_syndromes: req
    syn_res,       \* predict_syndromes: the response, or the HTTP error
    weather_file,  \* data/raw/weather_overrides.json
    weather_res,   \* weather_upsert: the response, or the HTTP error
    last_upsert,   \* history: per day, the latest accepted weather upsert
    last_supplied, \* history: per day and field, the latest value supplied
    inventory_file,\* data/raw/inventory.json
    inv_req,       \* upsert_inventory: req
    inv_before,    \* history: what _load_inventory returned before the upsert
    inv_res,       \* upsert_inventory: the response
    today_res,     \* mobile_today: the response, or the HTTP error
    status_res,    \* compute_status_level: the argument and the level
    fetch_res,     \* weather_fetch: the request, the upstream call, the answer
    procs          \* concurrent upserts: each request's position and locals

alertVars == <<demand_preds, inv, alerts>>

dataVars ==
    <<csv, vol_feat_list, vol_intervals, demand_art, demand_req, syn_art, syn_req>>

batchVars == <<demand_res, syn_res>>

volVars == <<vol_X, vol_x, vol_yhat, vol_res>>

weatherVars == <<weather_file, weather_res, last_upsert, last_supplied>>

inventoryVars == <<inventory_file, inv_req, inv_before, inv_res>>

todayVars == <<today_res, status_res>>

fetchVars == <<fetch_res>>

procVars == <<procs>>

vars ==
    <<pc, alertVars, dataVars, volVars, batchVars, weatherVars, inventoryVars,
      todayVars, fetchVars, procVars>>

\* Optional[...]: None is the empty set, a present value v is {v}
None == {}

Some(v) == {v}

Val(x) == CHOOSE v \in x : TRUE

Max(a, b) == IF a >= b THEN a ELSE b

(***************************************************************************)
(* compute_critical_alerts (main.py 465-512).                              *)
(* Forecast numbers (yhat, p90, weekly_high) are in thousandths; on_hand   *)
(* and reorder_point are integers, so on_hand is Milli * on_hand in the    *)
(* comparisons with weekly_high.                                           *)
(***************************************************************************)
Milli == 1000

\* bound: longest forecast list handed to compute_critical_alerts
MaxForecasts == 2

ItemCodes == {"X", "Y", "Z"}

\* DemandResItem: item_code, yhat, p90 (p10 is not read by the aggregator)
DemandResItem ==
    [item_code : ItemCodes, yhat : {0, 5000}, p90 : {None, Some(0), Some(8000)}]

\* inventory rows the upsert endpoint can produce; the first is the row of
\* the two-HIGH-alerts scenario
InvRowsX ==
    [name : {"X"}, on_hand : {0, 9, 10, 20, 40, 60}, reorder_point : {0, 40}]

InvRowsY == [name : {"Y"}, on_hand : {5, 56, 70}, reorder_point : {40}]

\* an inventory mapping: X always has a row, Y may, Z never has
Inventories ==
    { [i \in {"X"} |-> rx] : rx \in InvRowsX }
    \cup { [i \in {"X", "Y"} |-> IF i = "X" THEN rx ELSE ry] :
             rx \in InvRowsX, ry \in InvRowsY }

SeqsUpTo(S, n) == UNION { [1..k -> S] : k \in 0..n }

\* `d.yhat or 0`, `d.p90 or need`: Python's `or` takes the right operand
\* when the left one is None or 0
PyOr(x, dflt) == IF x = None \/ x = Some(0) THEN dflt ELSE Val(x)

\* need = max(0.0, float(d.yhat or 0)); yhat is a required float
Need(d) == Max(0, PyOr(Some(d.yhat), 0))

\* high_today = max(0.0, float(d.p90 or need)); weekly_high = high_today * 7.0
WeeklyHigh(d) == Max(0, PyOr(d.p90, Need(d))) * 7

\* the threshold chain with the first comparison not strict
StockSeverityInclusive(row) ==
    IF 4 * row.on_hand <= row.reorder_point THEN "HIGH"
    ELSE IF 2 * row.on_hand < row.reorder_point THEN "MEDIUM"
    ELSE IF row.on_hand <= row.reorder_point THEN "LOW"
    ELSE "none"

\* the stock-vs-reorder-threshold chain; on_hand < reorder_point * 0.25 is
\* 4 * on_hand < reorder_point over the integers (0.25 and 0.5 are exact)
StockSeverity(row) ==
    IF 4 * row.on_hand < row.reorder_point THEN "HIGH"
    ELSE IF 2 * row.on_hand < row.reorder_point THEN "MEDIUM"
    ELSE IF row.on_hand <= row.reorder_point THEN "LOW"
    ELSE "none"

\* a stock-level alert that is left out when the forecast check fires
StockAlertsUnlessForecast(d, row, i) ==
    IF StockSeverity(row) # "none" /\ ~(WeeklyHigh(d) > Milli * row.on_hand)
    THEN << [type |-> "stockout_risk", severity |-> StockSeverity(row),
             msg |-> "only_left", item_code |-> d.item_code, src |-> i] >>
    ELSE << >>

\* `if severity: alerts.append({... only N left ...})`
\* msg names the message template; src is the position of the forecast in
\* demand_preds (kept to state the generation order, not a field of the dict)
StockAlerts(d, row, i) ==
    IF StockSeverity(row) # "none"
    THEN << [type |-> "stockout_risk", severity |-> StockSeverity(row),
             msg |-> "only_left", item_code |-> d.item_code, src |-> i] >>
    ELSE << >>

\* the demand-forecast chain with `if` in place of `elif`
ForecastAlertsBoth(d, row, i) ==
    (IF WeeklyHigh(d) > Milli * row.on_hand
     THEN << [type |-> "stockout_risk", severity |-> "HIGH",
              msg |-> "need_in_stock", item_code |-> d.item_code, src |-> i] >>
     ELSE << >>)
    \o (IF WeeklyHigh(d) > Milli * row.reorder_point
        THEN << [type |-> "reorder", severity |-> "MEDIUM",
                 msg |-> "need_reorder", item_code |-> d.item_code, src |-> i] >>
        ELSE << >>)

\* the demand-forecast chain
ForecastAlerts(d, row, i) ==
    IF WeeklyHigh(d) > Milli * row.on_hand
    THEN << [type |-> "stockout_risk", severity |-> "HIGH",
             msg |-> "need_in_stock", item_code |-> d.item_code, src |-> i] >>
    ELSE IF WeeklyHigh(d) > Milli * row.reorder_point
    THEN << [type |-> "reorder", severity |-> "MEDIUM",
             msg |-> "need_reorder", item_code |-> d.item_code, src |-> i] >>
    ELSE << >>

\* one iteration of `for d in demand_preds`
AlertsForOne(d, inventory, i) ==
    IF d.item_code \notin DOMAIN inventory
    THEN << >>
    ELSE StockAlerts(d, inventory[d.item_code], i)
         \o ForecastAlerts(d, inventory[d.item_code], i)

RECURSIVE GenerateAlerts(_, _, _)
\* the alerts list before the final sort, forecasts i..Len(preds)
GenerateAlerts(preds, inventory, i) ==
    IF i > Len(preds) THEN << >>
    ELSE AlertsForOne(preds[i], inventory, i)
         \o GenerateAlerts(preds, inventory, i + 1)

\* the sort key: 0 if HIGH else (1 if MEDIUM else 2)
SeverityRank(a) ==
    IF a.severity = "HIGH" THEN 0 ELSE IF a.severity = "MEDIUM" THEN 1 ELSE 2

RECURSIVE InsertUnstable(_, _)
\* an insertion that goes before the elements of equal key
InsertUnstable(sorted, a) ==
    IF sorted = << >> THEN << a >>
    ELSE IF SeverityRank(a) <= SeverityRank(Head(sorted))
         THEN << a >> \o sorted
         ELSE << Head(sorted) >> \o InsertUnstable(Tail(sorted), a)

RECURSIVE InsertStable(_, _)
\* list.sort is stable: an element goes after every element whose key is
\* not larger
InsertStable(sorted, a) ==
    IF sorted = << >> THEN << a >>
    ELSE IF SeverityRank(a) < SeverityRank(Head(sorted))
         THEN << a >> \o sorted
         ELSE << Head(sorted) >> \o InsertStable(Tail(sorted), a)

RECURSIVE SortBySeverity(_)
\* alerts.sort(key=...)
SortBySeverity(s) ==
    IF s = << >> THEN << >>
    ELSE InsertStable(SortBySeverity(SubSeq(s, 1, Len(s) - 1)), s[Len(s)])

compute_critical_alerts(preds, inventory) ==
    SortBySeverity(GenerateAlerts(preds, inventory, 1))

(***************************************************************************)
(* The history table (main.py 79-81) and the feature builders.             *)
(* A table is [cols, date, data]: the header in file order, the date of    *)
(* each row as a day number (day 0 is Monday 2024-01-01), and for every    *)
(* other column its cells, NaN or Some(n).  Rows are in date order, as     *)
(* sort_values("date") leaves them.                                        *)
(***************************************************************************)
NaN == {}

SeqToSet(s) == { s[k] : k \in 1..Len(s) }

Rows(t) == 1..Len(t.date)

\* lags and rolling windows of the builders
LagNames == <<"lag_1", "lag_7", "lag_14", "lag_28">>

RollNames == <<"roll_mean_7", "roll_std_7", "roll_mean_14", "roll_std_14",
               "roll_mean_28", "roll_std_28">>

CalendarNames == <<"dow", "month", "is_weekend">>

\* the longest lag and widest window
MaxLag == 28

\* target-valued features (lags, rolling means) are in units of 1 / FeatScale,
\* so that the mean over 7, 14 or 28 values is an integer
FeatScale == 28

\* series.shift(k) at row i
Lag(y, k, i) ==
    IF i > k /\ y[i - k] # NaN THEN Some(FeatScale * Val(y[i - k])) ELSE NaN

\* rolling(w) has min_periods = w: defined once w values end at row i, none
\* of them missing
WindowFull(y, w, i) == i >= w /\ \A j \in (i - w + 1)..i : y[j] # NaN

RECURSIVE WinSum(_, _, _)
WinSum(y, lo, hi) ==
    IF lo > hi THEN 0 ELSE Val(y[hi]) + WinSum(y, lo, hi - 1)

RECURSIVE WinSumSq(_, _, _)
WinSumSq(y, lo, hi) ==
    IF lo > hi THEN 0 ELSE Val(y[hi]) * Val(y[hi]) + WinSumSq(y, lo, hi - 1)

\* rolling(w).mean()
RollMean(y, w, i) ==
    IF WindowFull(y, w, i)
    THEN Some((FeatScale \div w) * WinSum(y, i - w + 1, i))
    ELSE NaN

\* rolling(w).std(), the sample standard deviation s.  The value kept is
\* w * (w - 1) * s^2 = w * sum(x^2) - sum(x)^2, an integer that is 0 exactly
\* when s is 0 and that is equal for two rows exactly when s is
RollStd(y, w, i) ==
    IF WindowFull(y, w, i)
    THEN Some(w * WinSumSq(y, i - w + 1, i)
              - WinSum(y, i - w + 1, i) * WinSum(y, i - w + 1, i))
    ELSE NaN

\* the lag and rolling columns of a target series y
SeriesFeature(y, name, i) ==
    CASE name = "lag_1" -> Lag(y, 1, i)
      [] name = "lag_7" -> Lag(y, 7, i)
      [] name = "lag_14" -> Lag(y, 14, i)
      [] name = "lag_28" -> Lag(y, 28, i)
      [] name = "roll_mean_7" -> RollMean(y, 7, i)
      [] name = "roll_std_7" -> RollStd(y, 7, i)
      [] name = "roll_mean_14" -> RollMean(y, 14, i)
      [] name = "roll_std_14" -> RollStd(y, 14, i)
      [] name = "roll_mean_28" -> RollMean(y, 28, i)
      [] name = "roll_std_28" -> RollStd(y, 28, i)

\* .dt.dayofweek, .dt.month and (dow >= 5).astype(int) of a day number
\* (2024: January has 31 days, February 29)
Calendar(name, day) ==
    CASE name = "dow" -> day % 7
      [] name = "month" -> IF day < 31 THEN 1 ELSE IF day < 60 THEN 2 ELSE 3
      [] name = "is_weekend" -> IF day % 7 >= 5 THEN 1 ELSE 0

\* c.startswith("lag_") or c.startswith("roll_")
IsLagOrRoll(c) == c \in SeqToSet(LagNames) \cup SeqToSet(RollNames)

\* assigning d[name] appends the column unless the table has it already
AppendNew(cols, names) ==
    cols \o SelectSeq(names, LAMBDA c : c \notin SeqToSet(cols))

\* build_volume_features: the columns of d
VolumeColumns(t) == AppendNew(t.cols, LagNames \o RollNames \o CalendarNames)

\* build_volume_features: the cell of column c at row i
VolumeValue(t, c, i) ==
    IF IsLagOrRoll(c) THEN SeriesFeature(t.data["total_patients"], c, i)
    ELSE IF c \in SeqToSet(CalendarNames) THEN Some(Calendar(c, t.date[i]))
    ELSE t.data[c][i]

\* every row, as if dropna were not applied
AllRows(t) == Rows(t)

\* feats.dropna(subset=need): the rows with every lag/rolling column defined
ValidRows(t) ==
    { i \in Rows(t) :
        \A c \in SeqToSet(VolumeColumns(t)) :
            IsLagOrRoll(c) => VolumeValue(t, c, i) # NaN }

(***************************************************************************)
(* prep_X_from_features (main.py 153-171).  A feature matrix is            *)
(* [cols, idx, zero]: its columns in order, its rows, and the columns that *)
(* the alignment inserted as 0.                                            *)
(***************************************************************************)
IndexOf(cols, c) == CHOOSE k \in 1..Len(cols) : cols[k] = c

\* X[names]: for each name in turn the column of X of that name
SelectColumns(cols, names) ==
    [k \in 1..Len(names) |-> cols[IndexOf(cols, names[k])]]

\* the alignment without the final X = X[training_features]
AlignNoReorder(X, names) ==
    [cols |-> AppendNew(X.cols, names),
     idx |-> X.idx,
     zero |-> X.zero \cup (SeqToSet(names) \ SeqToSet(X.cols))]

\* for col in names: if col not in X.columns: X[col] = 0; X = X[names]
Align(X, names) ==
    [cols |-> SelectColumns(AppendNew(X.cols, names), names),
     idx |-> X.idx,
     zero |-> X.zero \cup (SeqToSet(names) \ SeqToSet(X.cols))]

\* X.nunique(dropna=False) of column c over the rows idx
NUnique(t, c, idx) == Cardinality({ VolumeValue(t, c, i) : i \in idx })

prep_X_from_features(t, idx, training_features) ==
    LET dropped == SelectSeq(VolumeColumns(t),
                       LAMBDA c : c \notin {"date", "total_patients"})
        varying == SelectSeq(dropped, LAMBDA c : NUnique(t, c, idx) > 1)
        X == [cols |-> varying, idx |-> idx, zero |-> {}]
    IN  IF training_features # None /\ Val(training_features) # << >>
        THEN Align(X, Val(training_features))
        ELSE X

\* a cell of the prepared matrix: fillna(0), and 0 in an inserted column
MatrixValue(t, X, c, i) ==
    IF c \in X.zero \/ VolumeValue(t, c, i) = NaN THEN 0
    ELSE Val(VolumeValue(t, c, i))

LastRow(idx) == CHOOSE i \in idx : \A j \in idx : j <= i

\* X_all.iloc[[-1]] as the list of (column, value) in column order
LastVector(t, X) ==
    [k \in 1..Len(X.cols) |->
        [name |-> X.cols[k],
         val |-> MatrixValue(t, X, X.cols[k], LastRow(X.idx))]]

(***************************************************************************)
(* JSON side files (main.py 83-93).  A file is missing, unreadable as      *)
(* JSON, or holds an object, kept as its set of <<key, value>> members.    *)
(***************************************************************************)
MissingFile == [state |-> "missing", members |-> {}]

CorruptFile == [state |-> "corrupt", members |-> {}]

EmptyDict == << >>

\* json.load of an object: the dict of its members
JsonObject(members) ==
    [k \in { m[1] : m \in members } |->
        (CHOOSE m \in members : m[1] = k)[2]]

\* _safe_load_json: {} when the file is missing or does not parse
SafeLoadJson(file) ==
    IF file.state = "json" THEN JsonObject(file.members) ELSE EmptyDict

\* _safe_save_json: json.dump of the dict
SafeSaveJson(data) ==
    [state |-> "json", members |-> { <<k, data[k]>> : k \in DOMAIN data }]

\* data[key] = value
DictSet(data, key, value) ==
    [k \in DOMAIN data \cup {key} |-> IF k = key THEN value ELSE data[k]]

(***************************************************************************)
(* Weather overrides (main.py 95-128, 580-587).  Weather values are in     *)
(* tenths.                                                                 *)
(***************************************************************************)
WeatherFields == <<"temperature", "rainfall", "humidity">>

\* pd.to_datetime(text): the day number, or None when it raises
ParseDate(text) ==
    CASE text = "2024-01-01" -> Some(0)
      [] text = "2024-01-02" -> Some(1)
      [] text = "2024-1-2" -> Some(1)
      [] OTHER -> None

\* .date().strftime("%Y-%m-%d")
FormatDate(day) ==
    CASE day = 0 -> "2024-01-01"
      [] day = 1 -> "2024-01-02"

\* an override record that keeps the stored fields the request left out
MergeIntoStored(data, key, rec) ==
    IF key \in DOMAIN data
    THEN DictSet(data, key,
             [f \in SeqToSet(WeatherFields) |->
                 IF rec[f] # None THEN rec[f] ELSE data[key][f]])
    ELSE DictSet(data, key, rec)

\* data[date_str] = {"temperature": ..., "rainfall": ..., "humidity": ...}
StoreOverride(data, key, rec) == DictSet(data, key, rec)

\* _save_weather_override
SaveWeatherOverride(file, key, rec) ==
    SafeSaveJson(StoreOverride(SafeLoadJson(file), key, rec))

\* the override cell of field f for a day: the value of the dfo row of that
\* date, NaN when no key has that date or the stored value is null
OverrideCell(overrides, f, day) ==
    IF \E k \in DOMAIN overrides : ParseDate(k) = Some(day)
    THEN overrides[CHOOSE k \in DOMAIN overrides : ParseDate(k) = Some(day)][f]
    ELSE NaN

\* np.where(dfm[ocol].notna(), dfm[ocol], dfm[col])
OverrideWins(base, ovr) == IF ovr # NaN THEN ovr ELSE base

\* _apply_weather_overrides: the left merge on date.  A field the CSV lacks
\* arrives as a new column holding the override values alone.
ApplyWeatherOverrides(t, overrides) ==
    IF DOMAIN overrides = {} THEN t
    ELSE [cols |-> AppendNew(t.cols, WeatherFields),
          date |-> t.date,
          data |-> [c \in DOMAIN t.data \cup SeqToSet(WeatherFields) |->
                     IF c \notin SeqToSet(WeatherFields) THEN t.data[c]
                     ELSE [i \in Rows(t) |->
                             IF c \in DOMAIN t.data
                             THEN OverrideWins(t.data[c][i],
                                      OverrideCell(overrides, c, t.date[i]))
                             ELSE OverrideCell(overrides, c, t.date[i])]]]

\* _hist_with_weather
HistWithWeather == ApplyWeatherOverrides(csv, SafeLoadJson(weather_file))

\* weather_upsert: the request's date text is normalised, or rejected
WeatherRecord(req) ==
    [f \in SeqToSet(WeatherFields) |-> req[f]]

WeatherUpsertReq ==
    [date : {"2024-01-01", "2024-1-2", "01-2024-99"},
     temperature : {None, Some(315), Some(280)},
     rainfall : {None, Some(20)},
     humidity : {None, Some(700)}]

NoWeatherResponse == [status |-> 0, date |-> ""]

WeatherUpsert(req) ==
    /\ pc' = "weather_upsert"
    /\ IF ParseDate(req.date) = None
       THEN /\ weather_res' = [status |-> 400, date |-> ""]
            /\ UNCHANGED <<weather_file, last_upsert, last_supplied>>
       ELSE LET day == Val(ParseDate(req.date))
                date_norm == FormatDate(day)
            IN  /\ weather_file' =
                      SaveWeatherOverride(weather_file, date_norm,
                                          WeatherRecord(req))
                /\ weather_res' = [status |-> 200, date |-> date_norm]
                /\ last_upsert' = DictSet(last_upsert, day, WeatherRecord(req))
                /\ last_supplied' =
                      DictSet(last_supplied, day,
                          [f \in SeqToSet(WeatherFields) |->
                              IF req[f] # None \/ day \notin DOMAIN last_supplied
                              THEN req[f] ELSE last_supplied[day][f]])
    /\ UNCHANGED <<todayVars, fetchVars, procVars>>
    /\ UNCHANGED <<alertVars, dataVars, volVars, batchVars, inventoryVars>>

(***************************************************************************)
(* Inventory (main.py 435-460).                                            *)
(***************************************************************************)
InventoryRow(name, on_hand, reorder_point) ==
    [name |-> name, on_hand |-> on_hand, reorder_point |-> reorder_point]

\* the default seed of _load_inventory
SeedInventory ==
    [k \in {"paracetamol", "ors_packets", "malaria_kits", "antibiotics"} |->
        CASE k = "paracetamol" -> InventoryRow("Paracetamol 500mg", 200, 150)
          [] k = "ors_packets" -> InventoryRow("ORS Sachets", 45, 60)
          [] k = "malaria_kits" -> InventoryRow("Malaria Test Kits", 30, 35)
          [] k = "antibiotics" -> InventoryRow("Antibiotics", 40, 30)]

\* _safe_load_json(INVENTORY_JSON) or {seed}
LoadInventory(file) ==
    IF DOMAIN SafeLoadJson(file) = {} THEN SeedInventory ELSE SafeLoadJson(file)

\* an upsert that builds the row from the defaults alone
UpsertedRowFromDefaults(inventory, req) ==
    [name |-> IF req.name # None THEN Val(req.name) ELSE req.item_code,
     on_hand |-> IF req.on_hand # None THEN Val(req.on_hand) ELSE 0,
     reorder_point |->
         IF req.reorder_point # None THEN Val(req.reorder_point) ELSE 0]

\* row = inv.get(item_code, {defaults}), then the fields the request holds
UpsertedRow(inventory, req) ==
    LET row == IF req.item_code \in DOMAIN inventory
               THEN inventory[req.item_code]
               ELSE InventoryRow(req.item_code, 0, 0)
    IN  [name |-> IF req.name # None THEN Val(req.name) ELSE row.name,
         on_hand |-> IF req.on_hand # None THEN Val(req.on_hand)
                     ELSE row.on_hand,
         reorder_point |->
             IF req.reorder_point # None THEN Val(req.reorder_point)
             ELSE row.reorder_point]

InventoryUpsertReq ==
    [item_code : {"paracetamol", "gauze"},
     name : {None, Some("Gauze roll")},
     on_hand : {None, Some(0), Some(7), Some(0 - 1)},
     reorder_point : {None, Some(20)}]

NoInventoryRequest ==
    [item_code |-> "", name |-> None, on_hand |-> None, reorder_point |-> None]

NoInventoryResponse == [ok |-> FALSE, item |-> "", data |-> InventoryRow("", 0, 0)]

upsert_inventory(req) ==
    /\ pc' = "inventory_upsert"
    /\ LET inventory == LoadInventory(inventory_file)
           row == UpsertedRow(inventory, req)
       IN  /\ inventory_file' =
                 SafeSaveJson(DictSet(inventory, req.item_code, row))
           /\ inv_res' = [ok |-> TRUE, item |-> req.item_code, data |-> row]
           /\ inv_before' = inventory
    /\ inv_req' = req
    /\ UNCHANGED <<todayVars, fetchVars, procVars>>
    /\ UNCHANGED <<alertVars, dataVars, volVars, batchVars, weatherVars>>

(***************************************************************************)
(* predict_volume (main.py 295-325).  Model outputs, residual offsets and  *)
(* the response numbers are in thousandths.                                *)
(***************************************************************************)
\* rounding away the last decimal digit of m, a tie going to the even digit
RoundLastDigit(m) ==
    LET q == m \div 10
        r == m % 10
    IN  IF r < 5 THEN 10 * q
        ELSE IF r > 5 THEN 10 * (q + 1)
        ELSE IF q % 2 = 0 THEN 10 * q ELSE 10 * (q + 1)

\* round(x, 2) of a number of thousandths
Round2(m) == RoundLastDigit(m)

\* round(p, 3) of a number of ten-thousandths
Round3(p) == RoundLastDigit(p)

\* a clamp by absolute value
CleanNumAbs(x) == Round2(IF x < 0 THEN 0 - x ELSE x)

\* a rounding that leaves out the clamp
CleanNumNoClamp(x) ==
    IF x >= 0 THEN Round2(x) ELSE 0 - Round2(0 - x)

\* _clean_num of a float: round(max(0.0, float(x)), 2)
CleanNum(x) == Round2(Max(0, x))

\* vol_intervals.get(key, default)
Residual(intervals, key, dflt) ==
    IF intervals[key] = None THEN dflt ELSE Val(intervals[key])

\* what vol_model.predict may return
RawOutputs == {0 - 5000, 0 - 4, 0, 5, 15, 50004, 50005}

NoMatrix == [cols |-> << >>, idx |-> {}, zero |-> {}]

NoResponse == [status |-> 0, predicted_visits |-> 0, p10 |-> 0, p90 |-> 0]

VolumeResponse(yhat, intervals) ==
    [status |-> 200,
     predicted_visits |-> CleanNum(yhat),
     p10 |-> CleanNum(yhat + Residual(intervals, "residual_p10", 0 - 1000)),
     p90 |-> CleanNum(yhat + Residual(intervals, "residual_p90", 1000))]

PredictVolume ==
    /\ pc = "idle"
    /\ pc' = "volume"
    /\ LET df == HistWithWeather
           feats == ValidRows(df)
       IN  IF feats = {}
           THEN /\ vol_res' = [NoResponse EXCEPT !.status = 400]
                /\ UNCHANGED <<vol_X, vol_x, vol_yhat>>
           ELSE /\ vol_X' = prep_X_from_features(df, feats, vol_feat_list)
                /\ vol_x' = LastVector(df, vol_X')
                /\ \E yhat \in RawOutputs :
                      /\ vol_yhat' = Some(yhat)
                      /\ vol_res' = VolumeResponse(yhat, vol_intervals)
    /\ UNCHANGED <<todayVars, fetchVars, procVars>>
    /\ UNCHANGED <<alertVars, dataVars, batchVars, weatherVars, inventoryVars>>

(***************************************************************************)
(* services/demand.py and predict_demand (main.py 328-352).                *)
(***************************************************************************)
\* f"{item_code}_used"
UsedColumn(item) ==
    CASE item = "X" -> "X_used" [] item = "Y" -> "Y_used" [] item = "Z" -> "Z_used"

DemandFiles == {"model.pkl", "features.json", "intervals.json"}

\* sorted([p.name for p in ART_ROOT.iterdir() if p.is_dir()])
list_available_items(art) ==
    SelectSeq(<<"X", "Y", "Z">>, LAMBDA c : c \in DOMAIN art)

\* the outcome of one per-entity prediction: the exception raised ("" when
\* none), the aligned matrix X_all if the alignment was reached, and the raw
\* numbers returned
Raised(error) == [error |-> error, aligned |-> FALSE, X |-> NoMatrix,
                  yhat |-> 0, p10 |-> 0, p90 |-> 0]

\* _build_features_for_item: the columns of X (y and date dropped) and the
\* rows left by dropna(subset=need)
BuildFeaturesForItem(t, col) ==
    [cols |-> LagNames \o RollNames \o <<"dow", "month">>
                \o SelectSeq(WeatherFields, LAMBDA c : c \in SeqToSet(t.cols)),
     idx |-> { i \in Rows(t) :
                 \A c \in SeqToSet(LagNames \o RollNames) :
                     SeriesFeature(t.data[col], c, i) # NaN },
     zero |-> {}]

\* X_all.empty: no row or no column
IsEmpty(X) == X.idx = {} \/ X.cols = << >>

predict_one_item(t, art, item, yhat) ==
    IF UsedColumn(item) \notin SeqToSet(t.cols)
    THEN Raised("FileNotFoundError")
    ELSE IF item \notin DOMAIN art \/ art[item].files # DemandFiles
    THEN Raised("FileNotFoundError")
    ELSE LET X == Align(BuildFeaturesForItem(t, UsedColumn(item)),
                        art[item].features)
         IN  [error |-> IF IsEmpty(X) THEN "ValueError" ELSE "",
              aligned |-> TRUE,
              X |-> X,
              yhat |-> yhat,
              p10 |-> yhat + Residual(art[item].intervals, "residual_p10",
                                      0 - 1000),
              p90 |-> yhat + Residual(art[item].intervals, "residual_p90",
                                      1000)]

\* DemandResItem(item_code=..., yhat=_clean_num(...), ...)
CleanDemandItem(item, pred) ==
    [item_code |-> item, yhat |-> CleanNum(pred.yhat),
     p10 |-> Some(CleanNum(pred.p10)), p90 |-> Some(CleanNum(pred.p90))]

RECURSIVE DemandLoop(_, _, _, _, _, _)
\* `for item in items`, from position k on, with `out` and the calls made so
\* far; yhats[item] is what the item's model returns
DemandLoop(t, art, items, yhats, k, acc) ==
    IF k > Len(items)
    THEN [status |-> IF acc.out = << >> THEN 404 ELSE 200,
          out |-> acc.out, calls |-> acc.calls]
    ELSE LET pred == predict_one_item(t, art, items[k], yhats[items[k]])
             calls == Append(acc.calls, pred)
         IN  IF pred.error = ""
             THEN DemandLoop(t, art, items, yhats, k + 1,
                      [out |-> Append(acc.out, CleanDemandItem(items[k], pred)),
                       calls |-> calls])
             ELSE IF pred.error = "FileNotFoundError"
             THEN DemandLoop(t, art, items, yhats, k + 1,
                      [out |-> acc.out, calls |-> calls])
             ELSE [status |-> 500, out |-> << >>, calls |-> calls]

\* items = req.items or list_available_items()
DemandItems(req, art) ==
    IF req = None \/ req = Some(<< >>) THEN list_available_items(art)
    ELSE Val(req)

NoBatch == [status |-> 0, out |-> << >>, calls |-> << >>]

\* what the demand models may return, per item
DemandOutputs ==
    { [i \in ItemCodes |-> 0 - 2000],
      [i \in ItemCodes |-> IF i = "X" THEN 1234 ELSE 5] }

PredictDemand ==
    /\ pc = "idle"
    /\ pc' = "demand"
    /\ LET items == DemandItems(demand_req, demand_art)
       IN  IF items = << >>
           THEN demand_res' = [NoBatch EXCEPT !.status = 404]
           ELSE \E yhats \in DemandOutputs :
                   demand_res' =
                       DemandLoop(HistWithWeather, demand_art, items, yhats, 1,
                                  [out |-> << >>, calls |-> << >>])
    /\ UNCHANGED <<todayVars, fetchVars, procVars>>
    /\ UNCHANGED <<alertVars, dataVars, volVars, syn_res, weatherVars,
                   inventoryVars>>

(***************************************************************************)
(* services/syndromes.py and predict_syndromes (main.py 354-371).          *)
(* Probabilities are in ten-thousandths.                                   *)
(***************************************************************************)
SynCodes == {"cold", "flu"}

\* f"{syn_code}_cases"
CasesColumn(syn) == CASE syn = "cold" -> "cold_cases" [] syn = "flu" -> "flu_cases"

SynFiles == {"model.pkl", "features.json", "meta.json"}

list_available_syndromes(art) ==
    SelectSeq(<<"cold", "flu">>, LAMBDA c : c \in DOMAIN art)

\* y_count = pd.to_numeric(...).fillna(0)
FillNa0(y) == [i \in 1..Len(y) |-> IF y[i] = NaN THEN Some(0) ELSE y[i]]

\* _build_features_for_syn: the columns of X (date dropped) and the rows left
\* by dropna(subset=need)
BuildFeaturesForSyn(t, col) ==
    LET y_count == FillNa0(t.data[col])
    IN  [cols |-> <<"y_count">> \o LagNames \o RollNames \o CalendarNames
                    \o (IF "total_patients" \in SeqToSet(t.cols)
                        THEN <<"tp_lag_1", "tp_lag_7", "tp_mean_7">>
                        ELSE << >>)
                    \o SelectSeq(WeatherFields,
                                 LAMBDA c : c \in SeqToSet(t.cols)),
         idx |-> { i \in Rows(t) :
                     \A c \in SeqToSet(LagNames \o RollNames) :
                         SeriesFeature(y_count, c, i) # NaN },
         zero |-> {}]

predict_one_syn(t, art, syn, prob) ==
    IF CasesColumn(syn) \notin SeqToSet(t.cols)
    THEN Raised("FileNotFoundError")
    ELSE IF syn \notin DOMAIN art \/ art[syn].files # SynFiles
    THEN Raised("FileNotFoundError")
    ELSE LET X == Align(BuildFeaturesForSyn(t, CasesColumn(syn)),
                        art[syn].features)
         IN  [error |-> IF IsEmpty(X) THEN "ValueError" ELSE "",
              aligned |-> TRUE, X |-> X, yhat |-> prob, p10 |-> 0, p90 |-> 0]

RECURSIVE InsertByProb(_, _)
\* sorted(..., key=prob, reverse=True) keeps the order of equal keys
InsertByProb(sorted, o) ==
    IF sorted = << >> THEN << o >>
    ELSE IF o.prob > Head(sorted).prob
         THEN << o >> \o sorted
         ELSE << Head(sorted) >> \o InsertByProb(Tail(sorted), o)

RECURSIVE SortByProb(_)
SortByProb(s) ==
    IF s = << >> THEN << >>
    ELSE InsertByProb(SortByProb(SubSeq(s, 1, Len(s) - 1)), s[Len(s)])

\* syns = req.syndromes or list_available_syndromes()
SynList(req, art) ==
    IF req.syndromes = None \/ req.syndromes = Some(<< >>)
    THEN list_available_syndromes(art)
    ELSE Val(req.syndromes)

\* the loop, the sort, the cut to max(1, top_n) and round(prob, 3)
SyndromeBatch(t, art, req, probs) ==
    LET syns == SynList(req, art)
        preds == [j \in 1..Len(syns) |->
                     predict_one_syn(t, art, syns[j], probs[syns[j]])]
        ok == SelectSeq([j \in 1..Len(syns) |-> j],
                        LAMBDA j : preds[j].error = "")
        out == SortByProb([j \in 1..Len(ok) |->
                             [syndrome |-> syns[ok[j]], prob |-> preds[ok[j]].yhat]])
        top == SubSeq(out, 1, IF Len(out) < Max(1, req.top_n)
                              THEN Len(out) ELSE Max(1, req.top_n))
    IN  IF syns = << >> \/ ok = << >>
        THEN [status |-> 404, out |-> << >>, calls |-> preds]
        ELSE [status |-> 200,
              out |-> [j \in 1..Len(top) |->
                         [syndrome |-> top[j].syndrome,
                          prob |-> Round3(top[j].prob), rank |-> j]],
              calls |-> preds]

\* what the syndrome models' predict_proba may return, per syndrome
Probabilities ==
    { [c \in SynCodes |-> 1235],
      [c \in SynCodes |-> IF c = "flu" THEN 9990 ELSE 0],
      [c \in SynCodes |-> IF c = "flu" THEN 15 ELSE 8765] }

PredictSyndromes ==
    /\ pc = "idle"
    /\ pc' = "syndromes"
    /\ \E probs \in Probabilities :
          syn_res' = SyndromeBatch(HistWithWeather, syn_art, syn_req, probs)
    /\ UNCHANGED <<todayVars, fetchVars, procVars>>
    /\ UNCHANGED <<alertVars, dataVars, volVars, demand_res, weatherVars,
                   inventoryVars>>

InitAlerts ==
    /\ demand_preds \in SeqsUpTo(DemandResItem, MaxForecasts)
    /\ inv \in Inventories
    /\ alerts = << >>

IdleAlerts ==
    /\ demand_preds = << >>
    /\ inv = << >>
    /\ alerts = << >>

\* bound: longest history
MaxHist == 40

\* bound: longest list of requested items
MaxItems == 2

ConstColumn(n, v) == [i \in 1..n |-> Some(v)]

\* a target column of n days: 50 every day, or 50 with one day missing or
\* different
TargetColumns(n) ==
    {ConstColumn(n, 50)}
    \cup { [ConstColumn(n, 50) EXCEPT ![k] = c] :
             k \in {1, n - 28, n - 10, n} \cap 1..n, c \in {NaN, Some(60)} }

\* a CSV of n consecutive days from day 0
Table(cols, n, data) ==
    [cols |-> cols, date |-> [i \in 1..n |-> i - 1], data |-> data]

\* the CSVs with no covariates, every length up to MaxHist
PlainTables ==
    { Table(<<"date", "total_patients">>, Len(y),
            [c \in {"total_patients"} |-> y]) :
        y \in UNION { TargetColumns(n) : n \in 1..MaxHist } }

\* the cell of a column of the wider CSVs on day i
ColumnCell(c, i) ==
    CASE c = "total_patients" -> Some(50 + (i % 3))
      [] c = "X_used" -> Some(5 + (i % 2))
      [] c = "Y_used" -> Some(3)
      [] c = "flu_cases" -> IF i % 5 = 0 THEN NaN ELSE Some(i % 3)
      [] c = "cold_cases" -> Some(1)
      [] c = "temperature" -> Some(300 + (i % 4))
      [] c = "rainfall" -> Some(0)
      [] c = "humidity" -> IF i % 7 = 0 THEN NaN ELSE Some(600 + (i % 2))

\* a CSV with item, syndrome and weather columns; with holedY the Y_used
\* column is blank every 20th day, so that no window of 28 days is complete
RichTable(cols, n, holedY) ==
    Table(cols, n,
          [c \in SeqToSet(cols) \ {"date"} |->
              [i \in 1..n |->
                  IF c = "Y_used" /\ holedY /\ i % 20 = 0 THEN NaN
                  ELSE ColumnCell(c, i)]])

ColumnOrders ==
    { <<"date", "total_patients", "X_used", "Y_used", "flu_cases",
        "cold_cases", "temperature", "rainfall", "humidity">>,
      <<"humidity", "temperature", "date", "flu_cases", "total_patients",
        "X_used">>,
      <<"date", "total_patients", "Y_used", "X_used", "temperature",
        "rainfall">> }

RichTables ==
    { RichTable(cols, n, h) :
        cols \in ColumnOrders, n \in {27, 28, 29, MaxHist}, h \in BOOLEAN }

FullFeatureList == LagNames \o RollNames \o CalendarNames

\* volume_features.json: missing, or a "features" list
VolumeFeatureLists ==
    { None,
      Some(FullFeatureList),
      Some(<<"month", "lag_7", "temperature", "holiday", "roll_std_28",
             "dow", "X_used">>),
      Some(<<"rainfall", "lag_1">>) }

DefaultIntervals == [residual_p10 |-> None, residual_p90 |-> None]

IntervalFiles ==
    [residual_p10 : {None, Some(0 - 2345), Some(0), Some(1500)},
     residual_p90 : {None, Some(0), Some(2345), Some(0 - 500)}]

DemandArtifact(files, features) ==
    [files |-> files, features |-> features, intervals |-> DefaultIntervals]

DemandFeaturesX ==
    LagNames \o RollNames \o <<"dow", "month", "temperature", "rainfall",
                               "humidity">>

DemandFeaturesY == <<"month", "lag_28", "is_holiday", "lag_1">>

\* ml/artifacts/demand/: both item folders complete, Y without its model,
\* or no Y folder
DemandArtifacts ==
    { [i \in {"X", "Y"} |->
          IF i = "X" THEN DemandArtifact(DemandFiles, DemandFeaturesX)
          ELSE DemandArtifact(DemandFiles, DemandFeaturesY)],
      [i \in {"X", "Y"} |->
          IF i = "X" THEN DemandArtifact(DemandFiles, DemandFeaturesX)
          ELSE DemandArtifact(DemandFiles \ {"model.pkl"}, DemandFeaturesY)],
      [i \in {"X"} |-> DemandArtifact(DemandFiles, DemandFeaturesX)] }

DefaultDemandArt ==
    [i \in {"X", "Y"} |->
        IF i = "X" THEN DemandArtifact(DemandFiles, DemandFeaturesX)
        ELSE DemandArtifact(DemandFiles, DemandFeaturesY)]

DemandRequests ==
    {None} \cup { Some(items) : items \in SeqsUpTo(ItemCodes, MaxItems) }

SynArtifact(files, features) ==
    [files |-> files, features |-> features, threshold |-> 5000]

SynFeaturesFlu ==
    <<"lag_1", "tp_mean_7", "is_weekend", "humidity", "roll_mean_7", "y_count">>

SynFeaturesCold == CalendarNames \o RollNames \o LagNames

SynArtifacts ==
    { [c \in SynCodes |->
          IF c = "flu" THEN SynArtifact(SynFiles, SynFeaturesFlu)
          ELSE SynArtifact(SynFiles, SynFeaturesCold)],
      [c \in SynCodes |->
          IF c = "flu" THEN SynArtifact(SynFiles \ {"meta.json"}, SynFeaturesFlu)
          ELSE SynArtifact(SynFiles, SynFeaturesCold)] }

DefaultSynArt ==
    [c \in SynCodes |->
        IF c = "flu" THEN SynArtifact(SynFiles, SynFeaturesFlu)
        ELSE SynArtifact(SynFiles, SynFeaturesCold)]

SynRequests ==
    [top_n : {0, 1, 3},
     syndromes : {None, Some(<<"flu">>), Some(<<"flu", "cold">>)}]

DefaultSynReq == [top_n |-> 3, syndromes |-> None]

IdleData ==
    /\ csv = Table(<<"date", "total_patients">>, 1,
                   [c \in {"total_patients"} |-> ConstColumn(1, 50)])
    /\ vol_feat_list = None
    /\ vol_intervals = DefaultIntervals
    /\ demand_art = DefaultDemandArt
    /\ demand_req = None
    /\ syn_art = DefaultSynArt
    /\ syn_req = DefaultSynReq

IdleVolume ==
    /\ vol_X = NoMatrix
    /\ vol_x = << >>
    /\ vol_yhat = None
    /\ vol_res = NoResponse

IdleBatch ==
    /\ demand_res = NoBatch
    /\ syn_res = NoBatch

IdleWeather ==
    /\ weather_file = MissingFile
    /\ weather_res = NoWeatherResponse
    /\ last_upsert = EmptyDict
    /\ last_supplied = EmptyDict

IdleInventory ==
    /\ inventory_file = MissingFile
    /\ inv_req = NoInventoryRequest
    /\ inv_before = EmptyDict
    /\ inv_res = NoInventoryResponse

NoToday == [status |-> 0]

NoStatus == [yhat |-> 0, level |-> ""]

NoFetch == [status |-> 0]

IdleToday ==
    /\ today_res = NoToday
    /\ status_res = NoStatus

IdleFetch == fetch_res = NoFetch

IdleProcs == procs = << >>

IdleRest == IdleToday /\ IdleFetch /\ IdleProcs

(***************************************************************************)
(* compute_status_level (main.py 252-261).  The estimate is in             *)
(* thousandths, the daily counts are whole numbers; a percentile is kept   *)
(* as 100 times its value.                                                 *)
(***************************************************************************)
\* df.tail(90)
StatusWindow == 90

\* len(last90) < 10
MinStatusRows == 10

\* df.tail(n)[col]: the last n cells of the column
TailOf(y, n) ==
    IF Len(y) <= n THEN y ELSE SubSeq(y, Len(y) - n + 1, Len(y))

\* the k-th smallest of the numbers of a sequence of present cells
KthSmallest(y, k) ==
    LET vals == { Val(y[i]) : i \in 1..Len(y) }
        below(v) == Cardinality({ i \in 1..Len(y) : Val(y[i]) < v })
        upto(v) == Cardinality({ i \in 1..Len(y) : Val(y[i]) <= v })
    IN  CHOOSE v \in vals : below(v) < k /\ k <= upto(v)

\* np.percentile(y, q), linear interpolation between the two closest ranks,
\* times 100; NaN when a cell is NaN
Percentile100(y, q) ==
    IF \E i \in 1..Len(y) : y[i] = NaN THEN NaN
    ELSE LET pos == q * (Len(y) - 1)
             lo == (pos \div 100) + 1
             frac == pos % 100
             a == KthSmallest(y, lo)
             b == IF frac = 0 THEN a ELSE KthSmallest(y, lo + 1)
         IN  Some(100 * a + frac * (b - a))

\* yhat <= p, false when p is NaN
AtMostPercentile(yhat, p) == p # NaN /\ 100 * yhat <= Milli * Val(p)

compute_status_level(t, yhat) ==
    LET last90 == TailOf(t.data["total_patients"], StatusWindow)
    IN  IF Len(last90) < MinStatusRows
        THEN IF yhat < 50 * Milli THEN "GREEN"
             ELSE IF yhat < 80 * Milli THEN "YELLOW" ELSE "RED"
        ELSE IF AtMostPercentile(yhat, Percentile100(last90, 60)) THEN "GREEN"
        ELSE IF AtMostPercentile(yhat, Percentile100(last90, 85)) THEN "YELLOW"
        ELSE "RED"

\* what the volume model's cleaned estimate may be, around the thresholds
StatusEstimates ==
    {0, 39990, 40000, 49990, 50000, 58000, 60000, 60010, 70000, 75500, 75510,
     79990, 80000, 500000}

ComputeStatusLevel ==
    /\ pc = "idle"
    /\ pc' = "status"
    /\ \E yhat \in StatusEstimates :
          status_res' =
              [yhat |-> yhat,
               level |-> compute_status_level(HistWithWeather, yhat)]
    /\ UNCHANGED <<today_res, fetchVars, procVars>>
    /\ UNCHANGED <<alertVars, dataVars, volVars, batchVars, weatherVars,
                   inventoryVars>>

(***************************************************************************)
(* mobile_today (main.py 514-565).  expected_patients and the preview      *)
(* yhat are in thousandths, delta_vs_yesterday_pct in tenths of a percent. *)
(* The nurse log of the day is passed through as stored and is left out.   *)
(***************************************************************************)
\* n / d rounded to the nearest integer, a tie going to the even one
RoundDiv(n, d) ==
    LET q == n \div d
        r == n % d
    IN  IF 2 * r < d THEN q
        ELSE IF 2 * r > d THEN q + 1
        ELSE IF q % 2 = 0 THEN q ELSE q + 1

\* round(((predicted_visits - yday) / max(1.0, yday)) * 100, 1); NaN when
\* yesterday's cell is blank, 0 when df.iloc[-2] raises
DeltaPct(t, predicted_visits) ==
    IF Len(t.date) < 2 THEN Some(0)
    ELSE LET yday == t.data["total_patients"][Len(t.date) - 1]
         IN  IF yday = NaN THEN NaN
             ELSE Some(RoundDiv(predicted_visits - Milli * Val(yday),
                                Max(1, Val(yday))))

\* [{"item_code": ..., "yhat": _clean_num(d.yhat)} for d in demand_list][:3]
DemandPreview(demand_list) ==
    [k \in 1..(IF Len(demand_list) < 3 THEN Len(demand_list) ELSE 3) |->
        [item_code |-> demand_list[k].item_code,
         yhat |-> CleanNum(demand_list[k].yhat)]]

\* SyndromesReq(top_n=3)
TodaySynReq == [top_n |-> 3, syndromes |-> None]

MobileToday ==
    /\ pc = "idle"
    /\ pc' = "today"
    /\ LET df == HistWithWeather
           feats == ValidRows(df)
           items == list_available_items(demand_art)
       IN  IF feats = {}
           THEN today_res' = [status |-> 400]
           ELSE IF items = << >>
           THEN today_res' = [status |-> 404]
           ELSE \E yhats \in DemandOutputs :
                LET demand == DemandLoop(df, demand_art, items, yhats, 1,
                                         [out |-> << >>, calls |-> << >>])
                    all == compute_critical_alerts(
                               demand.out, LoadInventory(inventory_file))
                IN  IF demand.status # 200
                    THEN today_res' = [status |-> demand.status]
                    ELSE \E probs \in Probabilities :
                         LET syn == SyndromeBatch(df, syn_art, TodaySynReq,
                                                  probs)
                         IN  \E yhat \in RawOutputs :
                             LET vol == VolumeResponse(yhat, vol_intervals)
                             IN  today_res' =
                                   [status |-> 200,
                                    expected_patients |-> vol.predicted_visits,
                                    delta_vs_yesterday_pct |->
                                        DeltaPct(df, vol.predicted_visits),
                                    level |-> compute_status_level(
                                                  df, vol.predicted_visits),
                                    top_syndromes |->
                                        IF syn.status = 200 THEN syn.out
                                        ELSE << >>,
                                    critical_alerts |->
                                        SelectSeq(all,
                                            LAMBDA a : a.severity = "HIGH"),
                                    demand_preview |->
                                        DemandPreview(demand.out)]
    /\ UNCHANGED <<status_res, fetchVars, procVars>>
    /\ UNCHANGED <<alertVars, dataVars, volVars, batchVars, weatherVars,
                   inventoryVars>>

(***************************************************************************)
(* Two upserts served at once.  FastAPI runs `def` endpoints in a thread    *)
(* pool, so two requests interleave between their file operations: the     *)
(* load (json.load), the open(path, "w") that empties the file, and the    *)
(* json.dump (main.py 91-93, 98-101, 451-460).  A request's record holds   *)
(* its position at, its store, its key and the dict it loaded and changed. *)
(***************************************************************************)
Requests == {1, 2}

\* inv = _load_inventory(); inv[item_code] = row  /
\* data = _load_weather_overrides(); data[date_str] = {...}
LoadedAndSet(r) ==
    IF r.store = "inventory"
    THEN LET inventory == LoadInventory(inventory_file)
         IN  DictSet(inventory, r.key, UpsertedRow(inventory, r.req))
    ELSE StoreOverride(SafeLoadJson(weather_file), r.key, WeatherRecord(r.req))

Load(p) ==
    /\ procs[p].at = "start"
    /\ procs' = [procs EXCEPT ![p].at = "loaded",
                              ![p].data = LoadedAndSet(procs[p])]
    /\ UNCHANGED <<pc, alertVars, dataVars, volVars, batchVars, weatherVars,
                   inventoryVars, todayVars, fetchVars>>

\* open(path, "w"): the file is empty until the dump
Open(p) ==
    /\ procs[p].at = "loaded"
    /\ procs' = [procs EXCEPT ![p].at = "opened"]
    /\ IF procs[p].store = "inventory"
       THEN /\ inventory_file' = CorruptFile
            /\ UNCHANGED weather_file
       ELSE /\ weather_file' = CorruptFile
            /\ UNCHANGED inventory_file
    /\ UNCHANGED <<pc, alertVars, dataVars, volVars, batchVars, weather_res,
                   last_upsert, last_supplied, inv_req, inv_before, inv_res,
                   todayVars, fetchVars>>

\* json.dump(data, file); when both requests hold the file open, the one
\* that dumps last leaves its content
Dump(p) ==
    /\ procs[p].at = "opened"
    /\ procs' = [procs EXCEPT ![p].at = "done"]
    /\ IF procs[p].store = "inventory"
       THEN /\ inventory_file' = SafeSaveJson(procs[p].data)
            /\ UNCHANGED weather_file
       ELSE /\ weather_file' = SafeSaveJson(procs[p].data)
            /\ UNCHANGED inventory_file
    /\ UNCHANGED <<pc, alertVars, dataVars, volVars, batchVars, weather_res,
                   last_upsert, last_supplied, inv_req, inv_before, inv_res,
                   todayVars, fetchVars>>

(***************************************************************************)
(* weather_fetch (main.py 602-644).  Latitude and longitude are in whole   *)
(* degrees, weather values in tenths.                                      *)
(***************************************************************************)
\* _today_local_str(): the clinic's date when the request is served
TodayLocal == "2024-01-02"

WeatherFetchReq ==
    [date : {None, Some("2024-01-01"), Some("2024-1-2"), Some("not-a-date"),
             Some("")},
     lat : {0 - 91, 0 - 90, 12, 91},
     lon : {0 - 181, 77, 180}]

\* whether OPENWEATHER_API_KEY is set
ApiKeys == {"", "k"}

\* what requests.get does: it raises, or answers with a status and a body
\* whose "main" and "rain" members may be missing
Upstream ==
    { [raised |-> TRUE, status_code |-> 0, temp |-> None, humidity |-> None,
       rain |-> None] }
    \cup [raised : {FALSE}, status_code : {401, 404, 500},
          temp : {None}, humidity : {None}, rain : {None}]
    \cup [raised : {FALSE}, status_code : {200},
          temp : {None, Some(301)}, humidity : {Some(650)},
          rain : {None, Some(12)}]

\* req.date or _today_local_str()
FetchDate(req) ==
    IF req.date = None \/ req.date = Some("") THEN TodayLocal ELSE Val(req.date)

WeatherFetch(req, api_key, r) ==
    /\ pc = "idle"
    /\ pc' = "weather_fetch"
    /\ LET answer(status, called) ==
               [status |-> status, called |-> called, req |-> req,
                upstream |-> r, before |-> weather_file]
       IN  IF api_key = ""
           THEN /\ fetch_res' = answer(500, FALSE)
                /\ UNCHANGED weather_file
           ELSE IF ~(0 - 90 <= req.lat /\ req.lat <= 90
                     /\ 0 - 180 <= req.lon /\ req.lon <= 180)
           THEN /\ fetch_res' = answer(400, FALSE)
                /\ UNCHANGED weather_file
           ELSE IF r.raised \/ r.status_code >= 400
           THEN /\ fetch_res' = answer(502, TRUE)
                /\ UNCHANGED weather_file
           ELSE /\ fetch_res' = answer(200, TRUE)
                /\ weather_file' =
                      SaveWeatherOverride(weather_file, FetchDate(req),
                          [temperature |-> r.temp, rainfall |-> r.rain,
                           humidity |-> r.humidity])
    /\ UNCHANGED <<weather_res, last_upsert, last_supplied>>
    /\ UNCHANGED <<todayVars, procVars>>
    /\ UNCHANGED <<alertVars, dataVars, volVars, batchVars, inventoryVars>>

ComputeAlerts ==
    /\ pc = "idle"
    /\ pc' = "alerts"
    /\ alerts' = compute_critical_alerts(demand_preds, inv)
    /\ UNCHANGED <<todayVars, fetchVars, procVars>>
    /\ UNCHANGED <<demand_preds, inv, dataVars, volVars, batchVars, weatherVars,
                   inventoryVars>>

InitA ==
    /\ pc = "idle"
    /\ IdleRest
    /\ InitAlerts /\ IdleData /\ IdleVolume /\ IdleBatch /\ IdleWeather
    /\ IdleInventory

NextA == ComputeAlerts

SpecAlerts == InitA /\ [][NextA]_vars

\* histories of every length, with and without the volume feature list
InitHistories ==
    /\ csv \in PlainTables
    /\ vol_feat_list \in {None, Some(FullFeatureList)}
    /\ vol_intervals = DefaultIntervals
    /\ demand_art = DefaultDemandArt /\ demand_req = None
    /\ syn_art = DefaultSynArt /\ syn_req = DefaultSynReq

\* the volume artifacts against the wider CSVs
InitVolumeArtifacts ==
    /\ csv \in RichTables
    /\ vol_feat_list \in VolumeFeatureLists
    /\ vol_intervals \in IntervalFiles
    /\ demand_art = DefaultDemandArt /\ demand_req = None
    /\ syn_art = DefaultSynArt /\ syn_req = DefaultSynReq

\* the demand artifacts and requests against the wider CSVs
InitDemandArtifacts ==
    /\ csv \in RichTables
    /\ vol_feat_list = Some(FullFeatureList)
    /\ vol_intervals = DefaultIntervals
    /\ demand_art \in DemandArtifacts /\ demand_req \in DemandRequests
    /\ syn_art = DefaultSynArt /\ syn_req = DefaultSynReq

\* the syndrome artifacts and requests against the wider CSVs
InitSynArtifacts ==
    /\ csv \in RichTables
    /\ vol_feat_list = Some(FullFeatureList)
    /\ vol_intervals = DefaultIntervals
    /\ demand_art = DefaultDemandArt /\ demand_req = None
    /\ syn_art \in SynArtifacts /\ syn_req \in SynRequests

InitData ==
    \/ InitHistories
    \/ InitVolumeArtifacts
    \/ InitDemandArtifacts
    \/ InitSynArtifacts

InitP ==
    /\ pc = "idle"
    /\ IdleRest
    /\ IdleAlerts /\ InitData /\ IdleVolume /\ IdleBatch /\ IdleWeather
    /\ IdleInventory

NextP == PredictVolume \/ PredictDemand \/ PredictSyndromes

SpecPredict == InitP /\ [][NextP]_vars

\* the histories of the daily snapshot: the wider CSVs at full length, one
\* of 29 days, one too short, and plain ones whose last days differ
TodayTables ==
    { RichTable(cols, MaxHist, FALSE) : cols \in ColumnOrders }
    \cup { RichTable(<<"date", "total_patients", "X_used", "flu_cases">>, n,
                     FALSE) : n \in {28, 29} }
    \cup { Table(<<"date", "total_patients">>, MaxHist,
                 [c \in {"total_patients"} |->
                     [ConstColumn(MaxHist, 50) EXCEPT ![k] = v]]) :
             k \in {MaxHist - 1, MaxHist}, v \in {NaN, Some(0), Some(60)} }

\* inventory.json: missing, or holding rows for the demand items
TodayInventoryFiles ==
    { MissingFile,
      SafeSaveJson([i \in {"X", "Y"} |->
                       IF i = "X" THEN InventoryRow("X", 10, 40)
                       ELSE InventoryRow("Y", 70, 40)]) }

\* the histories against the default artifacts
InitTodayHistories ==
    /\ csv \in TodayTables
    /\ vol_intervals \in
          { DefaultIntervals,
            [residual_p10 |-> Some(0 - 2345), residual_p90 |-> Some(2345)] }
    /\ demand_art = DefaultDemandArt
    /\ syn_art = DefaultSynArt

\* the artifact folders against the widest CSV
InitTodayArtifacts ==
    /\ csv \in { RichTable(<<"date", "total_patients", "X_used", "Y_used",
                             "flu_cases", "cold_cases", "temperature",
                             "rainfall", "humidity">>, MaxHist, h) :
                   h \in BOOLEAN }
    /\ vol_intervals = DefaultIntervals
    /\ demand_art \in DemandArtifacts
    /\ syn_art \in SynArtifacts

InitT ==
    /\ pc = "idle"
    /\ IdleRest
    /\ IdleAlerts /\ IdleVolume /\ IdleBatch /\ IdleWeather
    /\ InitTodayHistories \/ InitTodayArtifacts
    /\ vol_feat_list = Some(FullFeatureList)
    /\ demand_req = None
    /\ syn_req = DefaultSynReq
    /\ inventory_file \in TodayInventoryFiles
    /\ inv_req = NoInventoryRequest
    /\ inv_before = EmptyDict
    /\ inv_res = NoInventoryResponse

NextT == PredictVolume \/ PredictDemand \/ PredictSyndromes \/ MobileToday

SpecToday == InitT /\ [][NextT]_vars

\* lengths of history around the 10-row and 90-row limits
StatusLengths == {1, 9, 10, 11, 12, 89, 90, 91, 95}

\* a target column of n days whose last 90 days run through 40..80 and whose
\* earlier days hold 500; blank cells on the days of `holes`
StatusColumn(n, holes) ==
    [i \in 1..n |->
        IF i \in holes THEN NaN
        ELSE IF i <= n - StatusWindow THEN Some(500)
        ELSE Some(40 + ((i * 7) % 5) * 10)]

\* no blank day, a blank last day, three blank days, a blank day before the
\* last 90
StatusHoles(n) ==
    { {}, {n}, {n - 1, n - 3, n - 5} \cap 1..n, {n - StatusWindow} \cap 1..n }

StatusTables ==
    UNION { { Table(<<"date", "total_patients">>, n,
                    [c \in {"total_patients"} |-> StatusColumn(n, h)]) :
                h \in StatusHoles(n) } : n \in StatusLengths }

InitS ==
    /\ pc = "idle"
    /\ IdleRest
    /\ IdleAlerts /\ IdleVolume /\ IdleBatch /\ IdleWeather /\ IdleInventory
    /\ csv \in StatusTables
    /\ vol_feat_list = None
    /\ vol_intervals = DefaultIntervals
    /\ demand_art = DefaultDemandArt /\ demand_req = None
    /\ syn_art = DefaultSynArt /\ syn_req = DefaultSynReq

NextS == ComputeStatusLevel

SpecStatus == InitS /\ [][NextS]_vars

\* the inventory upserts of the two requests
ConcurrentInventoryReqs ==
    [item_code : {"paracetamol", "gauze"}, name : {None},
     on_hand : {Some(0), Some(7)}, reorder_point : {None}]

\* the weather upserts of the two requests
ConcurrentWeatherReqs ==
    [date : {"2024-01-01", "2024-01-02"}, temperature : {Some(315), Some(280)},
     rainfall : {None}, humidity : {None}]

\* a request that has not started
Started(store, req) ==
    [at |-> "start", store |-> store, req |-> req,
     key |-> IF store = "inventory" THEN req.item_code
             ELSE FormatDate(Val(ParseDate(req.date))),
     data |-> EmptyDict]

InitC ==
    /\ pc = "idle"
    /\ IdleToday /\ IdleFetch
    /\ IdleAlerts /\ IdleData /\ IdleVolume /\ IdleBatch
    /\ inventory_file \in
          {MissingFile, SafeSaveJson([k \in {"gauze"} |-> InventoryRow("Gauze", 3, 5)])}
    /\ inv_req = NoInventoryRequest
    /\ inv_before = EmptyDict
    /\ inv_res = NoInventoryResponse
    /\ weather_file \in
          {MissingFile,
           SafeSaveJson([k \in {"2024-01-02"} |->
                            [temperature |-> Some(250), rainfall |-> Some(20),
                             humidity |-> None]])}
    /\ weather_res = NoWeatherResponse
    /\ last_upsert = EmptyDict
    /\ last_supplied = EmptyDict
    /\ \/ \E a, b \in ConcurrentInventoryReqs :
             procs = [p \in Requests |->
                         Started("inventory", IF p = 1 THEN a ELSE b)]
       \/ \E a, b \in ConcurrentWeatherReqs :
             procs = [p \in Requests |->
                         Started("weather", IF p = 1 THEN a ELSE b)]

NextC == \E p \in Requests : Load(p) \/ Open(p) \/ Dump(p)

SpecConcurrent == InitC /\ [][NextC]_vars

InitF ==
    /\ pc = "idle"
    /\ IdleRest
    /\ IdleAlerts /\ IdleData /\ IdleVolume /\ IdleBatch /\ IdleInventory
    /\ weather_file \in
          {MissingFile, CorruptFile,
           SafeSaveJson([k \in {"2024-01-02"} |->
                            [temperature |-> Some(250), rainfall |-> Some(20),
                             humidity |-> None]])}
    /\ weather_res = NoWeatherResponse
    /\ last_upsert = EmptyDict
    /\ last_supplied = EmptyDict

NextF ==
    \E req \in WeatherFetchReq, api_key \in ApiKeys, r \in Upstream :
        WeatherFetch(req, api_key, r)

SpecFetch == InitF /\ [][NextF]_vars

\* two days of history, with all the weather columns or without humidity
WeatherTables ==
    { RichTable(cols, 2, FALSE) :
        cols \in { <<"date", "total_patients", "temperature", "rainfall",
                     "humidity">>,
                   <<"date", "rainfall", "total_patients", "temperature">> } }

InitW ==
    /\ pc = "idle"
    /\ IdleRest
    /\ IdleAlerts /\ IdleVolume /\ IdleBatch /\ IdleInventory
    /\ csv \in WeatherTables
    /\ vol_feat_list = None
    /\ vol_intervals = DefaultIntervals
    /\ demand_art = DefaultDemandArt /\ demand_req = None
    /\ syn_art = DefaultSynArt /\ syn_req = DefaultSynReq
    /\ weather_file \in {MissingFile, CorruptFile}
    /\ weather_res = NoWeatherResponse
    /\ last_upsert = EmptyDict
    /\ last_supplied = EmptyDict

NextW == \E req \in WeatherUpsertReq : WeatherUpsert(req)

SpecWeather == InitW /\ [][NextW]_vars

InitI ==
    /\ pc = "idle"
    /\ IdleRest
    /\ IdleAlerts /\ IdleData /\ IdleVolume /\ IdleBatch /\ IdleWeather
    /\ inventory_file \in {MissingFile, CorruptFile}
    /\ inv_req = NoInventoryRequest
    /\ inv_before = EmptyDict
    /\ inv_res = NoInventoryResponse

NextI == \E req \in InventoryUpsertReq : upsert_inventory(req)

SpecInventory == InitI /\ [][NextI]_vars

(***************************************************************************)
(* Claims about compute_critical_alerts, checked under SpecAlerts.         *)
(***************************************************************************)
Count(s, P(_)) == Cardinality({ i \in 1..Len(s) : P(s[i]) })

IsStockAlert(a) == a.msg = "only_left"

AlertsOf(c) == Count(alerts, LAMBDA a : a.item_code = c)

StockAlertsOf(c) == Count(alerts, LAMBDA a : a.item_code = c /\ IsStockAlert(a))

ForecastAlertsOf(c) ==
    Count(alerts, LAMBDA a : a.item_code = c /\ ~IsStockAlert(a))

ForecastsOf(c) == Count(demand_preds, LAMBDA d : d.item_code = c)

NoAlertForAbsentItem ==
    \A i \in 1..Len(alerts) : alerts[i].item_code \in DOMAIN inv

\* C1 as stated: for every forecast list, also one that names an item code
\* more than once, an item code gets at most 2 alerts (at most one
\* stock-level, at most one forecast-based), and no alert names an item
\* absent from the inventory mapping.
C1_AtMostTwoPerItem ==
    pc = "alerts" =>
        /\ \A c \in ItemCodes :
              /\ AlertsOf(c) <= 2
              /\ StockAlertsOf(c) <= 1
              /\ ForecastAlertsOf(c) <= 1
        /\ NoAlertForAbsentItem

\* C1 amended: the two checks run once per forecast entry, so an item code
\* that the list names k times gets at most 2k alerts (at most k stock-level,
\* at most k forecast-based), which is at most 2 when the list names it once;
\* no alert names an item absent from the inventory mapping.
C1_AtMostTwoPerForecast ==
    pc = "alerts" =>
        /\ \A c \in ItemCodes :
              /\ AlertsOf(c) <= 2 * ForecastsOf(c)
              /\ StockAlertsOf(c) <= ForecastsOf(c)
              /\ ForecastAlertsOf(c) <= ForecastsOf(c)
        /\ NoAlertForAbsentItem

\* both checks fired for an item named once, next to a forecast for an item
\* that has no inventory row
C1_Witness ==
    /\ pc = "alerts"
    /\ \E c \in ItemCodes : ForecastsOf(c) = 1 /\ AlertsOf(c) = 2
    /\ \E i \in 1..Len(demand_preds) :
          demand_preds[i].item_code \notin DOMAIN inv

\* C2: the returned list is ordered HIGH, MEDIUM, LOW, and alerts of equal
\* severity keep the generation order: by position of their forecast in the
\* list, and for one forecast the stock-level alert before the
\* demand-forecast alert.
C2_SortedStable ==
    pc = "alerts" =>
        \A i, j \in 1..Len(alerts) :
            i < j =>
                /\ SeverityRank(alerts[i]) <= SeverityRank(alerts[j])
                /\ SeverityRank(alerts[i]) = SeverityRank(alerts[j]) =>
                      \/ alerts[i].src < alerts[j].src
                      \/ /\ alerts[i].src = alerts[j].src
                         /\ IsStockAlert(alerts[i])
                         /\ ~IsStockAlert(alerts[j])

\* the sort moved something (a HIGH alert generated after a lower one) and
\* two alerts of one severity came from different forecasts
C2_Witness ==
    /\ pc = "alerts"
    /\ alerts # GenerateAlerts(demand_preds, inv, 1)
    /\ \E i, j \in 1..Len(alerts) :
          /\ i < j
          /\ alerts[i].severity = alerts[j].severity
          /\ alerts[i].src # alerts[j].src

ScenarioTwoHigh ==
    /\ pc = "alerts"
    /\ inv["X"].on_hand = 10
    /\ inv["X"].reorder_point = 40
    /\ demand_preds = << [item_code |-> "X", yhat |-> 5000, p90 |-> Some(8000)] >>

\* C3 as stated: inventory {onHand 10, reorderPoint 40} for X and the single
\* forecast {point 5, upperBound 8} give exactly two alerts for X, both HIGH.
C3_TwoHighAlerts ==
    ScenarioTwoHigh =>
        /\ Len(alerts) = 2
        /\ \A i \in 1..Len(alerts) :
              alerts[i].item_code = "X" /\ alerts[i].severity = "HIGH"

\* C3 amended: the scenario gives exactly two alerts for X: the HIGH
\* stockout-risk alert of the demand-forecast check (56 > 10) first, then the
\* stock-level alert, which is MEDIUM (10 < 0.25 * 40 is false, 10 < 0.5 * 40
\* is true).
C3_HighThenMedium ==
    ScenarioTwoHigh =>
        /\ Len(alerts) = 2
        /\ alerts[1].item_code = "X" /\ alerts[2].item_code = "X"
        /\ alerts[1].severity = "HIGH" /\ alerts[1].msg = "need_in_stock"
        /\ alerts[1].type = "stockout_risk"
        /\ alerts[2].severity = "MEDIUM" /\ IsStockAlert(alerts[2])

C3_Witness == ScenarioTwoHigh /\ Len(alerts) = 2

(***************************************************************************)
(* Claims about the prediction paths, checked under SpecPredict.           *)
(***************************************************************************)
\* whether predict_one_item returns a forecast for the item (the model's
\* output plays no part in that)
ItemSucceeds(item) ==
    predict_one_item(HistWithWeather, demand_art, item, 0).error = ""

\* C4: predict_demand continues past the failure of any single requested
\* item, whatever its kind (column absent, artifact file missing, not enough
\* trailing history), and returns the forecasts of the items that succeeded;
\* it fails as a whole only when no requested item produced a forecast.
C4_BatchContinuesPastAnyFailure ==
    pc = "demand" =>
        LET items == DemandItems(demand_req, demand_art)
            good == SelectSeq(items, ItemSucceeds)
        IN  IF good = << >>
            THEN demand_res.status # 200
            ELSE /\ demand_res.status = 200
                 /\ Len(demand_res.out) = Len(good)
                 /\ \A k \in 1..Len(good) :
                       demand_res.out[k].item_code = good[k]

\* C7: when residual_p10 <= 0 <= residual_p90, the response of predict_volume
\* has p10 <= predicted_visits <= p90, whatever the model returned.
C7_BoundsOrdered ==
    ( /\ pc = "volume"
      /\ vol_res.status = 200
      /\ Residual(vol_intervals, "residual_p10", 0 - 1000) <= 0
      /\ Residual(vol_intervals, "residual_p90", 1000) >= 0 )
    => /\ vol_res.p10 <= vol_res.predicted_visits
       /\ vol_res.predicted_visits <= vol_res.p90

\* the model returned a negative number and the upper bound stayed above the
\* clamped point estimate
C7_Witness ==
    /\ pc = "volume"
    /\ vol_res.status = 200
    /\ vol_yhat # None /\ Val(vol_yhat) < 0
    /\ Residual(vol_intervals, "residual_p10", 0 - 1000) < 0
    /\ Residual(vol_intervals, "residual_p90", 1000) > 0
    /\ vol_res.predicted_visits < vol_res.p90

\* C8: in the volume, demand and syndrome paths the aligned matrix has
\* exactly the columns of the artifact's expected feature list, in that
\* order, whatever the order of the built columns and whichever expected
\* columns are missing from them or extra in them.
C8_AlignmentOrderExact ==
    /\ ( pc = "volume" /\ vol_res.status = 200 /\ vol_feat_list # None )
       => vol_X.cols = Val(vol_feat_list)
    /\ pc = "demand" =>
          \A k \in 1..Len(demand_res.calls) :
              demand_res.calls[k].aligned =>
                  demand_res.calls[k].X.cols =
                      demand_art[DemandItems(demand_req, demand_art)[k]].features
    /\ pc = "syndromes" =>
          \A k \in 1..Len(syn_res.calls) :
              syn_res.calls[k].aligned =>
                  syn_res.calls[k].X.cols =
                      syn_art[SynList(syn_req, syn_art)[k]].features

\* the volume path aligned a CSV whose columns come in another order than
\* the expected list, lack one expected column and hold extra ones
C8_Witness ==
    /\ pc = "volume"
    /\ vol_res.status = 200
    /\ vol_feat_list # None
    /\ csv.cols[1] = "humidity"
    /\ "holiday" \in vol_X.zero
    /\ Len(vol_X.cols) < Len(VolumeColumns(csv))

ItemColumns == {"X_used", "Y_used"}

SynColumns == {"flu_cases", "cold_cases"}

\* C9: a history of fewer than 28 rows gives no valid row in any feature
\* builder, and predict_volume then fails with the 400 "not enough history"
\* error without calling the model.
C9_ShortHistoryNoValidRows ==
    Len(csv.date) < MaxLag =>
        /\ ValidRows(HistWithWeather) = {}
        /\ \A c \in ItemColumns \cap SeqToSet(csv.cols) :
              BuildFeaturesForItem(HistWithWeather, c).idx = {}
        /\ \A c \in SynColumns \cap SeqToSet(csv.cols) :
              BuildFeaturesForSyn(HistWithWeather, c).idx = {}
        /\ pc = "volume" =>
              /\ vol_res.status = 400
              /\ vol_yhat = None
              /\ vol_x = << >>

C9_Witness ==
    /\ pc = "volume"
    /\ Len(csv.date) = MaxLag - 1
    /\ \A i \in Rows(csv) : csv.data["total_patients"][i] # NaN
    /\ vol_res.status = 400

Identical40 ==
    /\ pc = "volume"
    /\ csv = Table(<<"date", "total_patients">>, 40,
                   [c \in {"total_patients"} |-> ConstColumn(40, 50)])
    /\ vol_feat_list = Some(FullFeatureList)

\* C10: for 40 identical daily records (target 50, no covariates) and an
\* expected feature list holding the lag and rolling columns, the vector
\* handed to the volume model has every lag and every rolling mean equal to
\* 50 and every rolling standard deviation equal to 0.
C10_IdenticalHistoryFeatures ==
    Identical40 =>
        /\ vol_res.status = 200
        /\ \A c \in SeqToSet(LagNames \o RollNames) :
              \E k \in 1..Len(vol_x) : vol_x[k].name = c
        /\ \A k \in 1..Len(vol_x) :
              /\ vol_x[k].name \in SeqToSet(LagNames) =>
                    vol_x[k].val = 50 * FeatScale
              /\ vol_x[k].name \in {"roll_mean_7", "roll_mean_14", "roll_mean_28"} =>
                    vol_x[k].val = 50 * FeatScale
              /\ vol_x[k].name \in {"roll_std_7", "roll_std_14", "roll_std_28"} =>
                    vol_x[k].val = 0

(***************************************************************************)
(* Claims about the weather overrides, checked under SpecWeather.          *)
(***************************************************************************)
\* the cell of a weather field in a table, NaN when the table lacks the
\* column
WeatherCell(t, f, i) == IF f \in DOMAIN t.data THEN t.data[f][i] ELSE NaN

\* C5 as stated: after any sequence of weather upserts the merged history
\* shows, for every date and field, the value most recently supplied for that
\* field by an upsert for that date, and the CSV value when no upsert for the
\* date supplied the field.
C5_FieldwiseLatestSupplied ==
    \A i \in Rows(csv) :
        \A f \in SeqToSet(WeatherFields) :
            WeatherCell(HistWithWeather, f, i) =
                IF /\ csv.date[i] \in DOMAIN last_supplied
                   /\ last_supplied[csv.date[i]][f] # None
                THEN last_supplied[csv.date[i]][f]
                ELSE WeatherCell(csv, f, i)

\* C5 amended: the latest upsert for a date replaces the stored record of
\* that date: the merged history shows, for every date and field, the value
\* the latest upsert for the date supplied for the field, and the CSV value
\* when there was no upsert for the date or the latest one left the field
\* out.  A single upsert(date, temperature=31.5) gives temperature 31.5 and
\* the CSV's rainfall and humidity.
C5_LatestUpsertPerField ==
    \A i \in Rows(csv) :
        \A f \in SeqToSet(WeatherFields) :
            WeatherCell(HistWithWeather, f, i) =
                IF /\ csv.date[i] \in DOMAIN last_upsert
                   /\ last_upsert[csv.date[i]][f] # None
                THEN last_upsert[csv.date[i]][f]
                ELSE WeatherCell(csv, f, i)

\* the latest upsert for the first day gave the temperature 31.5 alone, after
\* an earlier one had given a rainfall: the merged row has 31.5 and the
\* CSV's rainfall
C5_Witness ==
    /\ pc = "weather_upsert"
    /\ 0 \in DOMAIN last_upsert
    /\ last_upsert[0] =
          [temperature |-> Some(315), rainfall |-> None, humidity |-> None]
    /\ last_supplied[0]["rainfall"] # None
    /\ WeatherCell(HistWithWeather, "temperature", 1) = Some(315)
    /\ WeatherCell(csv, "temperature", 1) # Some(315)
    /\ WeatherCell(HistWithWeather, "rainfall", 1) = WeatherCell(csv, "rainfall", 1)

(***************************************************************************)
(* Claims about the inventory store, checked under SpecInventory.          *)
(***************************************************************************)
\* C6: after upsert_inventory(itemCode, fields), reading the inventory back
\* gives for itemCode the supplied values in the supplied fields and, in the
\* others, the previous values (name = itemCode, on_hand = 0,
\* reorder_point = 0 for a new item); it is the row the upsert answered; and
\* every other item reads back unchanged.
C6_InventoryRoundTrip ==
    pc = "inventory_upsert" =>
        LET after == LoadInventory(inventory_file)
            item == inv_req.item_code
            known == item \in DOMAIN inv_before
        IN  /\ DOMAIN after = DOMAIN inv_before \cup {item}
            /\ after[item].name =
                  IF inv_req.name # None THEN Val(inv_req.name)
                  ELSE IF known THEN inv_before[item].name ELSE item
            /\ after[item].on_hand =
                  IF inv_req.on_hand # None THEN Val(inv_req.on_hand)
                  ELSE IF known THEN inv_before[item].on_hand ELSE 0
            /\ after[item].reorder_point =
                  IF inv_req.reorder_point # None THEN Val(inv_req.reorder_point)
                  ELSE IF known THEN inv_before[item].reorder_point ELSE 0
            /\ after[item] = inv_res.data
            /\ \A k \in DOMAIN inv_before \ {item} : after[k] = inv_before[k]

\* an upsert of an item already stored with changed fields left one of them
\* out, next to the seed items
C6_Witness ==
    /\ pc = "inventory_upsert"
    /\ inv_req.item_code = "gauze"
    /\ "gauze" \in DOMAIN inv_before
    /\ inv_before["gauze"].on_hand = 7
    /\ inv_req.on_hand = None
    /\ inv_req.reorder_point = Some(20)
    /\ LoadInventory(inventory_file)["gauze"].on_hand = 7
    /\ "ors_packets" \in DOMAIN LoadInventory(inventory_file)

(***************************************************************************)
(* Claims about the numbers the four operations return, checked under      *)
(* SpecToday.                                                              *)
(***************************************************************************)
\* a number of thousandths that is non-negative and has 2 decimals
Cleaned(m) == m >= 0 /\ m % 10 = 0

\* the numbers that went through _clean_num: the volume response, the demand
\* items, the snapshot's expected_patients and demand_preview
CleanedForecasts ==
    /\ (pc = "volume" /\ vol_res.status = 200) =>
          /\ Cleaned(vol_res.predicted_visits)
          /\ Cleaned(vol_res.p10) /\ Cleaned(vol_res.p90)
    /\ pc = "demand" =>
          \A k \in 1..Len(demand_res.out) :
              /\ Cleaned(demand_res.out[k].yhat)
              /\ Cleaned(Val(demand_res.out[k].p10))
              /\ Cleaned(Val(demand_res.out[k].p90))
    /\ (pc = "today" /\ today_res.status = 200) =>
          /\ Cleaned(today_res.expected_patients)
          /\ \A k \in 1..Len(today_res.demand_preview) :
                Cleaned(today_res.demand_preview[k].yhat)

\* the syndrome probabilities returned, in ten-thousandths
ProbsReturned ==
    IF pc = "syndromes" THEN { syn_res.out[k].prob : k \in 1..Len(syn_res.out) }
    ELSE IF pc = "today" /\ today_res.status = 200
    THEN { today_res.top_syndromes[k].prob :
             k \in 1..Len(today_res.top_syndromes) }
    ELSE {}

\* yesterday's count, when the snapshot answered and the cell is present
YdayKnown ==
    /\ pc = "today" /\ today_res.status = 200
    /\ HistWithWeather.data["total_patients"][Len(csv.date) - 1] # NaN

Yday == Val(HistWithWeather.data["total_patients"][Len(csv.date) - 1])

AvailableLast90 ==
    SelectSeq(TailOf(HistWithWeather.data["total_patients"], StatusWindow),
              LAMBDA c : c # NaN)

\* C12: compute_status_level uses the fixed thresholds (< 50 GREEN, < 80
\* YELLOW, else RED) exactly when fewer than 10 of the last 90 daily target
\* values are available, blank values not counting; otherwise GREEN when
\* estimate <= p60, YELLOW when estimate <= p85, else RED, with p60 and p85
\* the percentiles of the available values of the last 90 days.
C12_LevelFromAvailableValues ==
    pc = "status" =>
        LET yhat == status_res.yhat
        IN  status_res.level =
                IF Len(AvailableLast90) < MinStatusRows
                THEN IF yhat < 50 * Milli THEN "GREEN"
                     ELSE IF yhat < 80 * Milli THEN "YELLOW" ELSE "RED"
                ELSE IF AtMostPercentile(yhat, Percentile100(AvailableLast90, 60))
                THEN "GREEN"
                ELSE IF AtMostPercentile(yhat, Percentile100(AvailableLast90, 85))
                THEN "YELLOW"
                ELSE "RED"

(***************************************************************************)
(* Claims about the two checks of the alert aggregator, checked under      *)
(* SpecAlerts.                                                             *)
(***************************************************************************)
\* the alerts of the forecast at position i, by check
ForecastAlertsAt(i) ==
    SelectSeq(alerts, LAMBDA a : a.src = i /\ ~IsStockAlert(a))

StockAlertsAt(i) ==
    SelectSeq(alerts, LAMBDA a : a.src = i /\ IsStockAlert(a))

\* the forecasts whose item has an inventory record
Stocked == { i \in 1..Len(demand_preds) : demand_preds[i].item_code \in DOMAIN inv }

\* C13: the demand-forecast check uses weeklyHigh = 7 * highToday, with
\* highToday = max(0, upperBound) whenever an upper bound is present, 0
\* included, and max(0, pointEstimate) only when it is absent; it gives a HIGH
\* stockout-risk alert if weeklyHigh > onHand, else a MEDIUM reorder alert if
\* weeklyHigh > reorderPoint, else none.
C13_UpperBoundWheneverPresent ==
    pc = "alerts" =>
        \A i \in Stocked :
            LET d == demand_preds[i]
                row == inv[d.item_code]
                highToday == IF d.p90 # None THEN Max(0, Val(d.p90))
                             ELSE Max(0, d.yhat)
                weeklyHigh == 7 * highToday
                got == ForecastAlertsAt(i)
            IN  IF weeklyHigh > Milli * row.on_hand
                THEN /\ Len(got) = 1
                     /\ got[1].severity = "HIGH"
                     /\ got[1].type = "stockout_risk"
                ELSE IF weeklyHigh > Milli * row.reorder_point
                THEN /\ Len(got) = 1
                     /\ got[1].severity = "MEDIUM"
                     /\ got[1].type = "reorder"
                ELSE got = << >>

\* C14: the stock-level check depends on onHand and reorderPoint alone: one
\* alert, HIGH if onHand < 0.25 * reorderPoint, else MEDIUM if
\* onHand < 0.5 * reorderPoint, else LOW if onHand <= reorderPoint, else no
\* stock-level alert, whatever the forecast and whether or not the
\* demand-forecast check fires.
C14_StockCheckIgnoresForecast ==
    pc = "alerts" =>
        \A i \in Stocked :
            LET row == inv[demand_preds[i].item_code]
                got == StockAlertsAt(i)
            IN  IF 4 * row.on_hand < row.reorder_point
                THEN Len(got) = 1 /\ got[1].severity = "HIGH"
                ELSE IF 2 * row.on_hand < row.reorder_point
                THEN Len(got) = 1 /\ got[1].severity = "MEDIUM"
                ELSE IF row.on_hand <= row.reorder_point
                THEN Len(got) = 1 /\ got[1].severity = "LOW"
                ELSE got = << >>

\* a LOW stock-level alert next to a HIGH forecast alert of the same
\* forecast, and a forecast with stock above the reorder point that got no
\* stock-level alert
C14_Witness ==
    /\ pc = "alerts"
    /\ \E i \in Stocked :
          /\ Len(StockAlertsAt(i)) = 1
          /\ StockAlertsAt(i)[1].severity = "LOW"
          /\ Len(ForecastAlertsAt(i)) = 1
          /\ ForecastAlertsAt(i)[1].severity = "HIGH"
    /\ \E i \in Stocked :
          /\ StockAlertsAt(i) = << >>
          /\ ForecastAlertsAt(i) = << >>

(***************************************************************************)
(* Claims about concurrent upserts, checked under SpecConcurrent.          *)
(***************************************************************************)
BothDone == \A p \in Requests : procs[p].at = "done"

\* what the store holds, read as the code reads it
StoreRead ==
    IF procs[1].store = "inventory" THEN SafeLoadJson(inventory_file)
    ELSE SafeLoadJson(weather_file)

\* the entry request p wrote under its key
Written(p) == procs[p].data[procs[p].key]

\* C15: under any interleaving of two concurrent upserts on one store, an
\* update is lost only when both write the same key, and then the last
\* writer wins; when the keys differ the store holds both written entries
\* once both have completed.
C15_LostOnlyOnSameKey ==
    BothDone =>
        IF procs[1].key # procs[2].key
        THEN \A p \in Requests :
                /\ procs[p].key \in DOMAIN StoreRead
                /\ StoreRead[procs[p].key] = Written(p)
        ELSE /\ procs[1].key \in DOMAIN StoreRead
             /\ StoreRead[procs[1].key] \in {Written(1), Written(2)}

(***************************************************************************)
(* Claims about the live weather fetch, checked under SpecFetch.           *)
(***************************************************************************)
\* a well-formed date (or none, or an empty one, which stand for today) and
\* coordinates in range
ValidFetch(req) ==
    /\ (req.date # None /\ req.date # Some("")) =>
          ParseDate(Val(req.date)) # None
    /\ 0 - 90 <= req.lat /\ req.lat <= 90
    /\ 0 - 180 <= req.lon /\ req.lon <= 180

UpstreamSucceeded(r) == ~r.raised /\ r.status_code < 400

\* C16: weather_fetch writes to the override store only when the request is
\* valid (well-formed date, latitude in [-90, 90], longitude in [-180, 180])
\* and the upstream call succeeded: an invalid request is rejected before
\* any upstream call or write, and an upstream network error or error
\* status leaves the store as it was.
C16_WriteOnlyAfterValidAndSuccess ==
    pc = "weather_fetch" =>
        /\ ~ValidFetch(fetch_res.req) =>
              /\ fetch_res.status \in {400, 500}
              /\ ~fetch_res.called
              /\ weather_file = fetch_res.before
        /\ (fetch_res.called /\ ~UpstreamSucceeded(fetch_res.upstream)) =>
              weather_file = fetch_res.before
        /\ weather_file # fetch_res.before =>
              /\ ValidFetch(fetch_res.req)
              /\ UpstreamSucceeded(fetch_res.upstream)

(***************************************************************************)
(* Claims about the inventory records, checked under SpecInventory.        *)
(***************************************************************************)
\* C17: in every state reachable by inventory upserts from the seed
\* inventory, every record has an on-hand quantity and a reorder point that
\* are non-negative integers.
C17_QuantitiesNonNegative ==
    \A k \in DOMAIN LoadInventory(inventory_file) :
        /\ LoadInventory(inventory_file)[k].on_hand \in Nat
        /\ LoadInventory(inventory_file)[k].reorder_point \in Nat

=============================================================================
